---- MODULE Spec2Model ----
(***************************************************************************)
(* Model of the two scripts of the repository:                             *)
(*                                                                         *)
(*   tools/derive_filmic_v6_gamut_mapping.py                               *)
(*       builds the Yrg -> LMS -> target RGB component as an expression in *)
(*       the chroma c and solves component = k for c;                      *)
(*   .ci/matrix.py                                                         *)
(*       a bot whose startup callback posts one message and exits.         *)
(*                                                                         *)
(* The derivation script works over the reals.  The model evaluates its    *)
(* expressions exactly, on rationals n / (d * 10^e) whose numerator and    *)
(* denominator are integers of arbitrary size (sequences of base-1000      *)
(* digits), because the decimal constants of the script, once multiplied   *)
(* together, do not fit the machine integers of the model checker.         *)
(***************************************************************************)
EXTENDS Integers, Sequences, FiniteSets, TLC

(***************************************************************************)
(* Integers of arbitrary size.  A number is a sequence of digits, least    *)
(* significant first, whose last element is the sign extension (0 or -1);  *)
(* every other element is in 0 .. Base-1.  Its value is the sum of         *)
(* x[i] * Base^(i-1), the last element included.  The form is canonical:   *)
(* no digit equal to the sign extension precedes it.                       *)
(***************************************************************************)
Base == 10^3

RECURSIVE Trim(_, _)
Trim(acc, s) ==
    IF Len(acc) > 0 /\ acc[Len(acc)] = (IF s = 0 THEN 0 ELSE Base - 1)
    THEN Trim(SubSeq(acc, 1, Len(acc) - 1), s)
    ELSE Append(acc, s)

RECURSIVE Finish(_, _)
Finish(carry, acc) ==
    IF carry = 0 \/ carry = -1
    THEN Trim(acc, carry)
    ELSE Finish(carry \div Base, Append(acc, carry % Base))

RECURSIVE CarryFrom(_, _, _, _)
CarryFrom(raw, i, carry, acc) ==
    IF i > Len(raw)
    THEN Finish(carry, acc)
    ELSE LET v == raw[i] + carry
         IN  CarryFrom(raw, i + 1, v \div Base, Append(acc, v % Base))

\* The canonical form of a sequence of (possibly out of range) digits.
Norm(raw) == CarryFrom(raw, 1, 0, <<>>)

At(a, i) == IF i >= 1 /\ i <= Len(a) THEN a[i] ELSE 0

Max2(m, n) == IF m >= n THEN m ELSE n

BZero == <<0>>
BOne == <<1, 0>>

FromInt(n) == Norm(<<n>>)

BAdd(a, b) == Norm([i \in 1..Max2(Len(a), Len(b)) |-> At(a, i) + At(b, i)])

BNeg(a) == Norm([i \in 1..Len(a) |-> 0 - a[i]])

BSub(a, b) == Norm([i \in 1..Max2(Len(a), Len(b)) |-> At(a, i) - At(b, i)])

RECURSIVE ConvSum(_, _, _, _, _)
ConvSum(a, b, k, i, acc) ==
    IF i > Len(a) \/ i > k
    THEN acc
    ELSE ConvSum(a, b, k, i + 1, acc + a[i] * At(b, k + 1 - i))

BMul(a, b) ==
    IF a = BZero \/ b = BZero THEN BZero
    ELSE IF a = BOne THEN b
    ELSE IF b = BOne THEN a
    ELSE Norm([k \in 1..(Len(a) + Len(b) - 1) |->
                  ConvSum(a, b, k, Max2(1, k + 1 - Len(b)), 0)])

BSign(a) == IF a = BZero THEN 0 ELSE IF a[Len(a)] = -1 THEN -1 ELSE 1

\* a * 10^e
RECURSIVE Zeros(_)
Zeros(n) == IF n = 0 THEN <<>> ELSE <<0>> \o Zeros(n - 1)

BShift(a, e) ==
    IF e = 0 \/ a = BZero THEN a
    ELSE LET m == 10^(e % 3)
         IN  Norm(Zeros(e \div 3) \o [i \in 1..Len(a) |-> a[i] * m])

(***************************************************************************)
(* Rationals: [n, d, e] stands for n / (d * 10^e), with d > 0.             *)
(***************************************************************************)
Rat(n, d, e) == [n |-> n, d |-> d, e |-> e]

\* The decimal m / 10^e of a small integer m.
Dec(m, e) == Rat(FromInt(m), BOne, e)

RInt(m) == Dec(m, 0)

RAdd(x, y) ==
    LET E == Max2(x.e, y.e)
    IN  IF x.d = y.d
        THEN Rat(BAdd(BShift(x.n, E - x.e), BShift(y.n, E - y.e)), x.d, E)
        ELSE Rat(BAdd(BMul(BShift(x.n, E - x.e), y.d),
                      BMul(BShift(y.n, E - y.e), x.d)),
                 BMul(x.d, y.d), E)

RNeg(x) == Rat(BNeg(x.n), x.d, x.e)

RSub(x, y) == RAdd(x, RNeg(y))

RMul(x, y) == Rat(BMul(x.n, y.n), BMul(x.d, y.d), x.e + y.e)

RSign(x) == BSign(x.n)

RIsZero(x) == x.n = BZero

\* x / y for y # 0.
RDiv(x, y) ==
    LET s  == BSign(y.n)
        yn == IF s < 0 THEN BNeg(y.n) ELSE y.n
        xn == IF s < 0 THEN BNeg(x.n) ELSE x.n
    IN  IF y.e >= x.e
        THEN Rat(BMul(BShift(xn, y.e - x.e), y.d), BMul(x.d, yn), 0)
        ELSE Rat(BMul(xn, y.d), BMul(x.d, yn), x.e - y.e)

\* The sign of x - y.
RCmp(x, y) ==
    LET E == Max2(x.e, y.e)
    IN  IF x.d = y.d
        THEN BSign(BSub(BShift(x.n, E - x.e), BShift(y.n, E - y.e)))
        ELSE BSign(BSub(BMul(BShift(x.n, E - x.e), y.d),
                        BMul(BShift(y.n, E - y.e), x.d)))

REq(x, y) == RCmp(x, y) = 0

RLt(x, y) == RCmp(x, y) < 0

(***************************************************************************)
(* Values of the symbolic algebra: a real number, or one of the two        *)
(* non-finite values that a division by zero produces (zoo, the complex    *)
(* infinity, and nan).  A division by zero raises nothing.                 *)
(***************************************************************************)
Num(r) == [kind |-> "num", v |-> r]
Zoo == [kind |-> "zoo"]
Nan == [kind |-> "nan"]

IsNum(a) == a.kind = "num"

VIsZero(a) == IsNum(a) /\ RIsZero(a.v)

VAdd(a, b) ==
    IF a.kind = "nan" \/ b.kind = "nan" THEN Nan
    ELSE IF a.kind = "zoo" /\ b.kind = "zoo" THEN Nan
    ELSE IF a.kind = "zoo" \/ b.kind = "zoo" THEN Zoo
    ELSE Num(RAdd(a.v, b.v))

VNeg(a) == IF IsNum(a) THEN Num(RNeg(a.v)) ELSE a

VSub(a, b) == VAdd(a, VNeg(b))

VMul(a, b) ==
    IF a.kind = "nan" \/ b.kind = "nan" THEN Nan
    ELSE IF a.kind = "zoo" \/ b.kind = "zoo"
         THEN IF VIsZero(a) \/ VIsZero(b) THEN Nan ELSE Zoo
    ELSE Num(RMul(a.v, b.v))

VDiv(a, b) ==
    IF a.kind = "nan" \/ b.kind = "nan" THEN Nan
    ELSE IF b.kind = "zoo" THEN (IF a.kind = "zoo" THEN Nan ELSE Num(RInt(0)))
    ELSE IF a.kind = "zoo" THEN Zoo
    ELSE IF RIsZero(b.v) THEN (IF RIsZero(a.v) THEN Nan ELSE Zoo)
    ELSE Num(RDiv(a.v, b.v))

\* Two values are the same real number.
VEq(a, b) == IsNum(a) /\ IsNum(b) /\ REq(a.v, b.v)

VLt(a, b) == IsNum(a) /\ IsNum(b) /\ RLt(a.v, b.v)

(***************************************************************************)
(* The constants of the derivation script.                                 *)
(***************************************************************************)
\* The white point offsets of Yrg, in units of 10^-8.
R0 == 21902143
G0 == 54371398

\* The luminance weights of L and M, in units of 10^-8.
W1 == 68990272
W2 == 34832189

\* The rgb -> lms matrix, in units of 10^-2.
rgb_to_lms ==
    << <<95, 38, 0>>,
       << 5, 62, 3>>,
       << 0,  0, 97>> >>

(***************************************************************************)
(* The expressions of the script, as functions of the values of its        *)
(* symbols.                                                                *)
(***************************************************************************)
\* Slips of PolarToYrg: the offset inside the product, the chroma left out,
\* the chroma squared.
PolarToYrgHueScaled(y, chroma, cosh, sinh) ==
    << y,
       VMul(VAdd(chroma, Num(Dec(R0, 8))), cosh),
       VMul(VAdd(chroma, Num(Dec(G0, 8))), sinh) >>

PolarToYrgNoChroma(y, chroma, cosh, sinh) ==
    << y,
       VAdd(cosh, Num(Dec(R0, 8))),
       VAdd(sinh, Num(Dec(G0, 8))) >>

PolarToYrgSquared(y, chroma, cosh, sinh) ==
    << y,
       VAdd(VMul(VMul(chroma, chroma), cosh), Num(Dec(R0, 8))),
       VAdd(VMul(VMul(chroma, chroma), sinh), Num(Dec(G0, 8))) >>

\* Go from polar coordinates to Yrg.
PolarToYrg(y, chroma, cosh, sinh) ==
    << y,
       VAdd(VMul(chroma, cosh), Num(Dec(R0, 8))),
       VAdd(VMul(chroma, sinh), Num(Dec(G0, 8))) >>

\* A slip of NormalizedRgb: the sign of g.
NormalizedRgbSignSlip(yrg) ==
    LET r == yrg[2]
        g == yrg[3]
    IN  <<r, g, VAdd(VSub(Num(RInt(1)), r), g)>>

\* Form normalized rgb.
NormalizedRgb(yrg) ==
    LET r == yrg[2]
        g == yrg[3]
    IN  <<r, g, VSub(VSub(Num(RInt(1)), r), g)>>

\* One row of the rgb -> lms product.
LmsRow(i, v) ==
    VAdd(VAdd(VMul(Num(Dec(rgb_to_lms[i][1], 2)), v[1]),
              VMul(Num(Dec(rgb_to_lms[i][2], 2)), v[2])),
         VMul(Num(Dec(rgb_to_lms[i][3], 2)), v[3]))

\* Transform to normalized lms space.
RgbToLms(v) == <<LmsRow(1, v), LmsRow(2, v), LmsRow(3, v)>>

\* The luminance of an lms triple: the denominator of coeff.
LuminanceOf(v) == VAdd(VMul(Num(Dec(W1, 8)), v[1]), VMul(Num(Dec(W2, 8)), v[2]))

\* A slip of CoeffOf: the third component of lms in place of the second.
CoeffOfWrongIndex(y, v) ==
    VDiv(y, VAdd(VMul(Num(Dec(W1, 8)), v[1]), VMul(Num(Dec(W2, 8)), v[3])))

\* The normalization coefficient.
CoeffOf(y, v) == VDiv(y, LuminanceOf(v))

\* Apply normalization based on luminance.
ScaleLms(cf, v) == <<VMul(cf, v[1]), VMul(cf, v[2]), VMul(cf, v[3])>>

\* One component of target RGB: the row a of the LMS -> RGB matrix times LMS.
ComponentOf(a, v) ==
    VAdd(VAdd(VMul(a[1], v[1]), VMul(a[2], v[2])), VMul(a[3], v[3]))

\* The unnormalized lms at chroma chroma.
LmsAt(y, chroma, cosh, sinh) ==
    RgbToLms(NormalizedRgb(PolarToYrg(y, chroma, cosh, sinh)))

\* The whole expression `component` at chroma chroma.
ComponentAt(y, chroma, cosh, sinh, a) ==
    LET v == LmsAt(y, chroma, cosh, sinh)
    IN  ComponentOf(a, ScaleLms(CoeffOf(y, v), v))

(***************************************************************************)
(* solveset_real(component - k, c).  The expression is a quotient of two   *)
(* polynomials in c, both of degree one because rgb and lms are affine in  *)
(* c.  The solver brings it over one denominator, solves the numerator,    *)
(* and takes away the roots of the denominator.  It works on symbols: the  *)
(* root of p1*c + p0 is the formula -p0/p1, which stands for no chroma     *)
(* where the values of the symbols make p1 zero.                           *)
(***************************************************************************)
\* The numerator of component - k over the denominator of coeff.
NumeratorAt(y, t, cosh, sinh, a, kk) ==
    LET v == LmsAt(y, t, cosh, sinh)
    IN  VSub(VMul(y, ComponentOf(a, v)), VMul(kk, LuminanceOf(v)))

\* The denominator of component - k.
DenominatorAt(y, t, cosh, sinh) == LuminanceOf(LmsAt(y, t, cosh, sinh))

\* A slip of LinearRoots: the sign of the root.
LinearRootsSignSlip(p0, p1) ==
    LET slope == VSub(p1, p0)
    IN  IF VIsZero(slope) THEN {} ELSE {VDiv(p0, slope)}

\* The roots of the polynomial of degree one with value p0 at 0 and p1 at 1.
LinearRoots(p0, p1) ==
    LET slope == VSub(p1, p0)
    IN  IF VIsZero(slope) THEN {} ELSE {VDiv(VNeg(p0), slope)}

\* The chroma at which the denominator of coeff is zero.
SingularChroma(y, cosh, sinh) ==
    LinearRoots(DenominatorAt(y, Num(RInt(0)), cosh, sinh),
                DenominatorAt(y, Num(RInt(1)), cosh, sinh))

\* Slips of SolvesetReal: the roots of the denominator are kept; the negative
\* roots are dropped.
SolvesetRealKeepsPoles(y, cosh, sinh, a, kk) ==
    LinearRoots(NumeratorAt(y, Num(RInt(0)), cosh, sinh, a, kk),
                NumeratorAt(y, Num(RInt(1)), cosh, sinh, a, kk))

SolvesetRealNonNegative(y, cosh, sinh, a, kk) ==
    LET valid   == LinearRoots(NumeratorAt(y, Num(RInt(0)), cosh, sinh, a, kk),
                               NumeratorAt(y, Num(RInt(1)), cosh, sinh, a, kk))
        invalid == SingularChroma(y, cosh, sinh)
    IN  {t \in valid : ~VLt(t, Num(RInt(0))) /\ \A p \in invalid : ~VEq(t, p)}

SolvesetReal(y, cosh, sinh, a, kk) ==
    LET valid   == LinearRoots(NumeratorAt(y, Num(RInt(0)), cosh, sinh, a, kk),
                               NumeratorAt(y, Num(RInt(1)), cosh, sinh, a, kk))
        invalid == SingularChroma(y, cosh, sinh)
    IN  {t \in valid : \A p \in invalid : ~VEq(t, p)}

(***************************************************************************)
(* The values the symbols of the script are given.                         *)
(***************************************************************************)
\* Chroma is sampled in steps of 1/2 from -1/2 to MaxChromaStep/2.
MaxChromaStep == 2

Chromas == {Num(Dec(5 * i, 1)) : i \in (0 - 1)..MaxChromaStep}

Luminances == {Num(RInt(0)), Num(Dec(5, 1)), Num(RInt(1))}

\* (cos h, sin h) of the hues 0, pi/2, pi and atan(4/3).
Hues ==
    { <<Num(RInt(1)), Num(RInt(0))>>,
      <<Num(RInt(0)), Num(RInt(1))>>,
      <<Num(RInt(0 - 1)), Num(RInt(0))>>,
      <<Num(Dec(6, 1)), Num(Dec(8, 1))>> }

\* Rows of an LMS -> RGB matrix: the three unit rows, a row with a negative
\* coefficient, and the row of the luminance weights.
Rows ==
    { <<Num(RInt(1)), Num(RInt(0)), Num(RInt(0))>>,
      <<Num(RInt(0)), Num(RInt(1)), Num(RInt(0))>>,
      <<Num(RInt(0)), Num(RInt(0)), Num(RInt(1))>>,
      <<Num(RInt(2)), Num(RInt(0 - 1)), Num(RInt(0))>>,
      <<Num(Dec(W1, 8)), Num(Dec(W2, 8)), Num(RInt(0))>> }

\* The target values: black, white, and the value the component has at the
\* chroma t (so that t is known to solve the equation).
Targets(y, t, cosh, sinh, a) ==
    LET here == ComponentAt(y, t, cosh, sinh, a)
    IN  {Num(RInt(0)), Num(RInt(1))} \cup (IF IsNum(here) THEN {here} ELSE {})

Unset == [kind |-> "unset"]

(***************************************************************************)
(* The rooms of the notification bot.                                      *)
(***************************************************************************)
MaxRooms == 3

RoomId(i) == <<"room", i>>

\* The rooms the bot account may have joined.
JoinedIds == {RoomId(i) : i \in 1..MaxRooms}

\* --room not given, and --room given as the empty string.
NoneRoom == <<"None">>
EmptyRoom == <<"">>

\* The values of args.room: not given, empty, a joined room, another room.
RoomArgs == {NoneRoom, EmptyRoom} \cup JoinedIds \cup {RoomId(MaxRooms + 1)}

\* Python's truth value of args.room.
Truthy(v) == v # NoneRoom /\ v # EmptyRoom

VARIABLES
    Y, c, ch, sh, A, k,         \* the values of the symbols of the script
    Yrg, rgb, lms, coeff, LMS,  \* its intermediate expressions at these values
    component,
    roots,                      \* the solution set of component - k in c
    pc,                         \* the statement the script has reached
    room,                       \* args.room
    pending,                    \* joined rooms whose startup callback is due
    joined_room_id,             \* the argument of the running callback
    bpc,                        \* where the bot is
    sent,                       \* the rooms a message was sent to, in order
    returned,                   \* the rooms whose callback returned early
    exited                      \* exit() was called

script_vars == <<Y, c, ch, sh, A, k, Yrg, rgb, lms, coeff, LMS, component, roots, pc>>
bot_vars == <<room, pending, joined_room_id, bpc, sent, returned, exited>>
vars == <<script_vars, bot_vars>>

BotIdle ==
    /\ room = NoneRoom
    /\ pending = {}
    /\ joined_room_id = NoneRoom
    /\ bpc = "run"
    /\ sent = <<>>
    /\ returned = {}
    /\ exited = FALSE

ScriptIdle ==
    /\ Y = Unset /\ c = Unset /\ ch = Unset /\ sh = Unset
    /\ A = Unset /\ k = Unset
    /\ Yrg = Unset /\ rgb = Unset /\ lms = Unset /\ coeff = Unset
    /\ LMS = Unset /\ component = Unset
    /\ roots = {}
    /\ pc = "symbols"

(***************************************************************************)
(* The derivation script, statement by statement.                          *)
(***************************************************************************)
ScriptInit ==
    /\ Y \in Luminances
    /\ c \in Chromas
    /\ \E h \in Hues : ch = h[1] /\ sh = h[2]
    /\ A \in Rows
    /\ k \in Targets(Y, c, ch, sh, A)
    /\ Yrg = Unset /\ rgb = Unset /\ lms = Unset /\ coeff = Unset
    /\ LMS = Unset /\ component = Unset
    /\ roots = {}
    /\ pc = "symbols"

Init == ScriptInit /\ BotIdle

BuildYrg ==
    /\ pc = "symbols"
    /\ Yrg' = PolarToYrg(Y, c, ch, sh)
    /\ pc' = "Yrg"
    /\ UNCHANGED <<Y, c, ch, sh, A, k, rgb, lms, coeff, LMS, component, roots>>
    /\ UNCHANGED bot_vars

FormRgb ==
    /\ pc = "Yrg"
    /\ rgb' = NormalizedRgb(Yrg)
    /\ pc' = "rgb"
    /\ UNCHANGED <<Y, c, ch, sh, A, k, Yrg, lms, coeff, LMS, component, roots>>
    /\ UNCHANGED bot_vars

TransformToLms ==
    /\ pc = "rgb"
    /\ lms' = RgbToLms(rgb)
    /\ pc' = "lms"
    /\ UNCHANGED <<Y, c, ch, sh, A, k, Yrg, rgb, coeff, LMS, component, roots>>
    /\ UNCHANGED bot_vars

ComputeCoeff ==
    /\ pc = "lms"
    /\ coeff' = CoeffOf(Y, lms)
    /\ pc' = "coeff"
    /\ UNCHANGED <<Y, c, ch, sh, A, k, Yrg, rgb, lms, LMS, component, roots>>
    /\ UNCHANGED bot_vars

Normalize ==
    /\ pc = "coeff"
    /\ LMS' = ScaleLms(coeff, lms)
    /\ pc' = "LMS"
    /\ UNCHANGED <<Y, c, ch, sh, A, k, Yrg, rgb, lms, coeff, component, roots>>
    /\ UNCHANGED bot_vars

Project ==
    /\ pc = "LMS"
    /\ component' = ComponentOf(A, LMS)
    /\ pc' = "component"
    /\ UNCHANGED <<Y, c, ch, sh, A, k, Yrg, rgb, lms, coeff, LMS, roots>>
    /\ UNCHANGED bot_vars

Solve ==
    /\ pc = "component"
    /\ roots' = SolvesetReal(Y, ch, sh, A, k)
    /\ pc' = "solved"
    /\ UNCHANGED <<Y, c, ch, sh, A, k, Yrg, rgb, lms, coeff, LMS, component>>
    /\ UNCHANGED bot_vars

\* The expressions are evaluated again, at a chroma of the solution set or at
\* the chroma where the denominator of coeff is zero.
Substitute ==
    /\ pc = "solved"
    /\ \E t \in roots \cup SingularChroma(Y, ch, sh) :
          /\ t # c
          /\ c' = t
    /\ Yrg' = Unset /\ rgb' = Unset /\ lms' = Unset /\ coeff' = Unset
    /\ LMS' = Unset /\ component' = Unset
    /\ pc' = "symbols"
    /\ UNCHANGED <<Y, ch, sh, A, k, roots>>
    /\ UNCHANGED bot_vars

Next ==
    \/ BuildYrg
    \/ FormRgb
    \/ TransformToLms
    \/ ComputeCoeff
    \/ Normalize
    \/ Project
    \/ Solve
    \/ Substitute

Spec == Init /\ [][Next]_vars

(***************************************************************************)
(* The notification bot.  bot.run() calls the startup callback once for    *)
(* every joined room, one call after the other (each call is awaited       *)
(* before the next), in the order the client holds the rooms; any order    *)
(* is possible here.  exit() raises SystemExit out of bot.run().           *)
(***************************************************************************)
BotInit ==
    /\ room \in RoomArgs
    /\ pending \in SUBSET JoinedIds
    /\ joined_room_id = NoneRoom
    /\ bpc = "run"
    /\ sent = <<>>
    /\ returned = {}
    /\ exited = FALSE
    /\ ScriptIdle

\* A slip of Invoke: the room test the wrong way round.
InvokeFilterInverted(r) ==
    /\ bpc = "run"
    /\ ~exited
    /\ r \in pending
    /\ pending' = pending \ {r}
    /\ joined_room_id' = r
    /\ IF Truthy(room) /\ room = r
       THEN /\ returned' = returned \cup {r}
            /\ bpc' = "run"
       ELSE /\ returned' = returned
            /\ bpc' = "send"
    /\ UNCHANGED <<room, sent, exited>>
    /\ UNCHANGED script_vars

\* send_message is entered for a joined room and runs up to its first await.
Invoke(r) ==
    /\ bpc = "run"
    /\ ~exited
    /\ r \in pending
    /\ pending' = pending \ {r}
    /\ joined_room_id' = r
    /\ IF Truthy(room) /\ room # r
       THEN /\ returned' = returned \cup {r}
            /\ bpc' = "run"
       ELSE /\ returned' = returned
            /\ bpc' = "send"
    /\ UNCHANGED <<room, sent, exited>>
    /\ UNCHANGED script_vars

\* await bot.api.send_markdown_message(room_id=joined_room_id, ...)
SendMarkdownMessage ==
    /\ bpc = "send"
    /\ sent' = Append(sent, joined_room_id)
    /\ bpc' = "exit"
    /\ UNCHANGED <<room, pending, joined_room_id, returned, exited>>
    /\ UNCHANGED script_vars

\* A slip of Exit: the callback returns to bot.run() instead of exiting.
ExitReturns ==
    /\ bpc = "exit"
    /\ bpc' = "run"
    /\ UNCHANGED <<room, pending, joined_room_id, sent, returned, exited>>
    /\ UNCHANGED script_vars

\* exit()
Exit ==
    /\ bpc = "exit"
    /\ exited' = TRUE
    /\ bpc' = "done"
    /\ UNCHANGED <<room, pending, joined_room_id, sent, returned>>
    /\ UNCHANGED script_vars

BotNext ==
    \/ \E r \in JoinedIds : Invoke(r)
    \/ SendMarkdownMessage
    \/ Exit

BotSpec == BotInit /\ [][BotNext]_vars

(***************************************************************************)
(* Properties of the derivation script.                                    *)
(***************************************************************************)
RZero == Num(RInt(0))
ROne == Num(RInt(1))

HasRgb == pc \in {"rgb", "lms", "coeff", "LMS", "component", "solved"}
HasCoeff == pc \in {"coeff", "LMS", "component", "solved"}
HasLMS == pc \in {"LMS", "component", "solved"}
HasComponent == pc \in {"component", "solved"}

\* c is one of the chroma of the solution set.
IsRoot(t) == \E s \in roots : VEq(s, t)

\* t solves the equation: the forward pipeline is defined at t and gives k.
SolvesEquation(t) ==
    LET v == LmsAt(Y, t, ch, sh)
    IN  /\ ~VIsZero(LuminanceOf(v))
        /\ VEq(ComponentOf(A, ScaleLms(CoeffOf(Y, v), v)), k)

\* The coefficient of c in the numerator of component - k.
ChromaCoefficient ==
    VSub(NumeratorAt(Y, ROne, ch, sh, A, k), NumeratorAt(Y, RZero, ch, sh, A, k))

\* C1: every chroma of the solution set, put back into the expressions of the
\* script, has a non-zero normalization denominator and gives component = k.
C1_RoundTrip ==
    (HasComponent /\ IsRoot(c)) =>
        /\ ~VIsZero(LuminanceOf(lms))
        /\ IsNum(coeff)
        /\ VEq(component, k)

\* A chroma of the solution set that is none of the sampled chroma has been
\* substituted and evaluated.
C1_Witness ==
    /\ pc = "component"
    /\ IsRoot(c)
    /\ c \notin Chromas
    /\ ~VIsZero(Y)
    /\ VEq(component, k)

\* C2 as stated: the solution set holds every sampled chroma that solves the
\* equation, and only real numbers.
C2_Original ==
    pc = "solved" =>
        /\ \A t \in Chromas : SolvesEquation(t) => IsRoot(t)
        /\ \A s \in roots : IsNum(s)

\* C2, amended: where the coefficient of c in the numerator of component - k
\* is not zero, the solution set holds every sampled chroma (negative ones
\* too) at which the pipeline is defined and gives k, and only real numbers.
C2_Complete ==
    (pc = "solved" /\ ~VIsZero(ChromaCoefficient)) =>
        /\ \A t \in Chromas : SolvesEquation(t) => IsRoot(t)
        /\ \A s \in roots : IsNum(s)

\* A negative chroma solves the equation and is in the solution set.
C2_Witness ==
    /\ pc = "solved"
    /\ ~VIsZero(ChromaCoefficient)
    /\ VLt(c, RZero)
    /\ SolvesEquation(c)
    /\ IsRoot(c)

\* C3 as stated: a zero normalization denominator is signalled as an error.
C3_Original ==
    (HasCoeff /\ VIsZero(LuminanceOf(lms))) =>
        coeff.kind = "DegenerateNormalization"

\* C3, amended: a zero normalization denominator raises nothing; coeff and
\* the scaled LMS are then the non-finite values zoo or nan, and no chroma of
\* the solution set has a zero normalization denominator.
C3_NonFinite ==
    /\ (HasCoeff /\ VIsZero(LuminanceOf(lms))) => coeff.kind \in {"zoo", "nan"}
    /\ (HasLMS /\ VIsZero(LuminanceOf(lms))) =>
           \A i \in 1..3 : LMS[i].kind \in {"zoo", "nan"}
    /\ pc = "solved" =>
           \A s \in roots : ~VIsZero(DenominatorAt(Y, s, ch, sh))

\* The scaled LMS has been computed at a chroma whose denominator is zero.
C3_Witness ==
    /\ HasLMS
    /\ VIsZero(LuminanceOf(lms))
    /\ coeff = Zoo
    /\ LMS[1] = Zoo

\* C4: where the normalization denominator w1*L + w2*M is not zero, the
\* luminance w1*L_scaled + w2*M_scaled of the scaled LMS is Y.
C4_LuminanceIsY ==
    (HasLMS /\ ~VIsZero(LuminanceOf(lms))) => VEq(LuminanceOf(LMS), Y)

C4_Witness ==
    /\ HasLMS
    /\ ~VIsZero(LuminanceOf(lms))
    /\ ~VIsZero(Y)
    /\ ~VEq(LuminanceOf(lms), Y)

\* C5: for chroma >= 0 the three components of rgb sum to 1.
C5_Closure ==
    (HasRgb /\ ~VLt(c, RZero)) =>
        VEq(VAdd(VAdd(rgb[1], rgb[2]), rgb[3]), ROne)

\* rgb has been formed at a chroma > 0 and one component is outside [0, 1].
C5_Witness ==
    /\ HasRgb
    /\ VLt(RZero, c)
    /\ \E i \in 1..3 : VLt(rgb[i], RZero) \/ VLt(ROne, rgb[i])

\* C6: at chroma 0 the component is the same for every hue.
C6_RotationInvariant ==
    (HasComponent /\ VEq(c, RZero)) =>
        \A h \in Hues : VEq(component, ComponentAt(Y, RZero, h[1], h[2], A))

C6_Witness ==
    /\ HasComponent
    /\ VEq(c, RZero)
    /\ ~VIsZero(Y)
    /\ ~VIsZero(sh)
    /\ ~VIsZero(component)

\* The sampled chroma from 0 up to which the normalization denominator stays
\* positive (it is positive at 0 and affine in c).
ValidChromas ==
    {t \in Chromas : ~VLt(t, RZero) /\ VLt(RZero, DenominatorAt(Y, t, ch, sh))}

\* The scaled LMS at chroma t.
ScaledLmsAt(t) ==
    LET v == LmsAt(Y, t, ch, sh)
    IN  ScaleLms(CoeffOf(Y, v), v)

\* The component of row a moves one way, strictly, along the chroma of
\* scaled, a set of pairs <<chroma, scaled LMS at that chroma>>.
MovesAway(a, scaled) ==
    LET val == {<<p[1], ComponentOf(a, p[2])>> : p \in scaled}
    IN  \/ \A p, q \in val : VLt(p[1], q[1]) => VLt(p[2], q[2])
        \/ \A p, q \in val : VLt(p[1], q[1]) => VLt(q[2], p[2])

\* The rows whose component moves one way along the valid chroma.
Movers ==
    LET scaled == {<<t, ScaledLmsAt(t)>> : t \in ValidChromas}
    IN  {a \in Rows : MovesAway(a, scaled)}

Det3(a, b, d) ==
    VAdd(VSub(VMul(a[1], VSub(VMul(b[2], d[3]), VMul(b[3], d[2]))),
              VMul(a[2], VSub(VMul(b[1], d[3]), VMul(b[3], d[1])))),
         VMul(a[3], VSub(VMul(b[1], d[2]), VMul(b[2], d[1]))))

\* The sets of three rows that form an invertible LMS -> RGB matrix.
ChannelTriples ==
    {m \in SUBSET Rows :
        /\ Cardinality(m) = 3
        /\ \E a, b, d \in m : ~VIsZero(Det3(a, b, d))}

SomeChannelMovesAway ==
    LET movers == Movers
    IN  \A m \in ChannelTriples : m \cap movers # {}

\* C7 as stated: for every Y and hue, one of the three channels moves
\* strictly one way as chroma grows from 0 over the valid chroma.
C7_Original == pc = "solved" => SomeChannelMovesAway

\* C7, amended: for Y # 0 and every hue, one of the three channels of an
\* invertible matrix moves strictly one way as chroma grows from 0 over the
\* valid chroma.
C7_Monotone == (pc = "solved" /\ ~VIsZero(Y)) => SomeChannelMovesAway

\* Three chroma are valid, and a channel other than the moving one is constant.
C7_Witness ==
    /\ pc = "solved"
    /\ ~VIsZero(Y)
    /\ Cardinality(ValidChromas) >= 3
    /\ Movers # {}
    /\ Movers # Rows

\* C8: the solution set has at most one chroma, and the sampled chroma that
\* solve the equation are none, one, or all those with a non-zero denominator.
C8_Linear ==
    pc = "solved" =>
        LET sol == {t \in Chromas : SolvesEquation(t)}
        IN  /\ Cardinality(roots) <= 1
            /\ Cardinality(sol) >= 2 =>
                   \A u \in Chromas \ sol : VIsZero(DenominatorAt(Y, u, ch, sh))

\* Exactly one sampled chroma solves the equation, and it is the solution set.
C8_Witness ==
    /\ pc = "solved"
    /\ Cardinality({t \in Chromas : SolvesEquation(t)}) = 1
    /\ Cardinality(roots) = 1
    /\ \A t \in Chromas : SolvesEquation(t) => IsRoot(t)

(***************************************************************************)
(* Properties of the notification bot.                                     *)
(***************************************************************************)
SentTo == {sent[i] : i \in 1..Len(sent)}

\* C9: with --room given, no message goes to another room, and a callback
\* for another room returns without sending or exiting; with --room not
\* given, the callback sends to the room it is called for.
C9_RoomFilter ==
    /\ Truthy(room) => \A r \in SentTo : r = room
    /\ \A r \in returned : Truthy(room) /\ r # room /\ r \notin SentTo
    /\ (returned # {} /\ sent = <<>> /\ bpc = "run") => ~exited
    /\ (~Truthy(room) /\ bpc \in {"exit", "done"}) => sent = <<joined_room_id>>

\* A callback for another room has returned, and the one for --room has sent.
C9_Witness ==
    /\ Truthy(room)
    /\ returned # {}
    /\ sent = <<room>>
    /\ exited

\* C10: at most one message is sent; it is sent before exit() and by the
\* first callback that passes the room test; after it no callback runs; if
\* no joined room passes, nothing is sent and exit() is not called.
C10_OneMessage ==
    /\ Len(sent) <= 1
    /\ exited => Len(sent) = 1
    /\ Len(sent) = 1 => (bpc \in {"exit", "done"} /\ sent = <<joined_room_id>>)
    /\ bpc = "done" <=> exited
    /\ (pending = {} /\ bpc = "run") => (sent = <<>> /\ ~exited)

\* The bot has exited after one message while other joined rooms were due.
C10_Witness ==
    /\ exited
    /\ Len(sent) = 1
    /\ pending # {}
    /\ ~Truthy(room)
====
